---- MODULE Spec2Model ----
(***************************************************************************)
(* Model of the gzip file compressor: pkg/compressor/compressor.go and the *)
(* command dispatch of cmd/filecompressor/main.go.                         *)
(*                                                                         *)
(* Strings are sequences of tokens.  A token is one character ("a", "d",   *)
(* "g", "h", "/", "."), the three-character string ".gz", or the name      *)
(* of a root directory ("in", "out", "out2").  "." is only ever followed   *)
(* by ".gz" or by nothing, so the substring ".gz" occurs in a string       *)
(* exactly where the token ".gz" occurs in its sequence.                   *)
(*                                                                         *)
(* Times are integers: ticks since the Unix epoch, TicksPerSec to a second.*)
(***************************************************************************)
EXTENDS Integers, Sequences, FiniteSets, TLC

VARIABLES
    fs,          \* the file system: path -> directory or regular file
    pc,          \* where the program is: start, ready, walk, file, exit
    level,       \* FileCompressor.compressionLevel (0: no compressor yet)
    levelArg,    \* the level NewFileCompressor was called with
    cmd,         \* the command main dispatched, with its two paths
    todo,        \* regular files filepath.Walk has yet to visit
    task,        \* inputPath and outputPath of the single-file operation
    exitStatus,  \* the status the process exits with
    completed,   \* whether main printed "completed successfully"
    retErr,      \* what the directory operation returned to main
    handles,     \* file handles and codec streams that are open
    last,        \* the last single-file operation and what it returned
    origin,      \* for a container CompressFile wrote: what it was made from
    log,         \* the files the walk function was called on in this run
    runs         \* runs of the program so far

vars == <<fs, pc, level, levelArg, cmd, todo, task, exitStatus, completed,
          retErr, handles, last, origin, log, runs>>

(***************************** bounds **************************************)
\* regular files in the initial input tree
MaxFiles == 2
\* runs of the program over the same file system
MaxRuns == 2
\* clock ticks to a second (file times are finer than gzip's MTIME field)
TicksPerSec == 2

(************************* strings and paths *******************************)
Sep == "/"
GzSuffix == <<".gz">>
Dot == <<".">>

InDir == <<"in">>
OutDir == <<"out">>
Out2Dir == <<"out2">>

\* index of the first occurrence of token t in s, 0 when there is none
IndexOf(s, t) ==
    IF \E i \in 1..Len(s) : s[i] = t
    THEN CHOOSE i \in 1..Len(s) : s[i] = t /\ \A j \in 1..(i - 1) : s[j] # t
    ELSE 0

\* index of the last occurrence of token t in s, 0 when there is none
LastIndexOf(s, t) ==
    IF \E i \in 1..Len(s) : s[i] = t
    THEN CHOOSE i \in 1..Len(s) : s[i] = t /\ \A j \in (i + 1)..Len(s) : s[j] # t
    ELSE 0

\* strings.Split(s, ".gz")[0]: the part of s before the first ".gz"
SplitFirst(s) ==
    IF IndexOf(s, ".gz") = 0 THEN s ELSE SubSeq(s, 1, IndexOf(s, ".gz") - 1)

\* filepath.Clean on the paths that arise here: a trailing separator goes
RECURSIVE Clean(_)
Clean(p) ==
    IF Len(p) > 1 /\ p[Len(p)] = Sep THEN Clean(SubSeq(p, 1, Len(p) - 1)) ELSE p

\* filepath.Join(dir, rel): empty elements are ignored, the result is
\* cleaned (a "." element goes, and so does a trailing separator)
Join(dir, rel) ==
    IF rel = <<>> \/ rel = Dot THEN Clean(dir) ELSE Clean(dir \o <<Sep>> \o rel)

\* filepath.Dir(p): all but the last element; "." when p has no separator
Dir(p) ==
    IF LastIndexOf(p, Sep) = 0 THEN Dot
    ELSE Clean(SubSeq(p, 1, LastIndexOf(p, Sep) - 1))

\* filepath.Base(p): the last element
Base(p) == SubSeq(p, LastIndexOf(p, Sep) + 1, Len(p))

\* filepath.Rel(base, path) for a path the walk of base produced
Rel(base, path) ==
    IF path = base THEN Dot ELSE SubSeq(path, Len(base) + 2, Len(path))

\* whether path lies below directory base
Below(base, path) ==
    /\ Len(path) > Len(base) + 1
    /\ SubSeq(path, 1, Len(base)) = base
    /\ path[Len(base) + 1] = Sep

\* number of bytes of a token and of a string
TokLen(t) == IF t = ".gz" THEN 3 ELSE IF t = "in" THEN 2 ELSE IF t = "out" THEN 3
             ELSE IF t = "out2" THEN 4 ELSE 1

RECURSIVE ByteLen(_)
ByteLen(s) == IF s = <<>> THEN 0 ELSE TokLen(s[1]) + ByteLen(Tail(s))

(****************************** file data **********************************)
\* A file holds plain bytes or a gzip container.
Raw(b) == [t |-> "raw", bytes |-> b]
Gz(name, mtime, payload) ==
    [t |-> "gz", name |-> name, mtime |-> mtime, payload |-> payload]

\* time.Time{}: the zero time, January 1 of year 1.  Its distance from the
\* epoch is beyond TLC's integers; what matters is that it is earlier than
\* every time a file or a gzip header of the model carries.
ZeroTime == (0 - 1000000) * TicksPerSec
IsZero(t) == t = ZeroTime

\* what the clock reads (time.Now, and the time os.Create stamps on a file)
Now == 7 * TicksPerSec + 1

\* gzip member layout (RFC 1952): 10 header bytes, the name and its NUL,
\* the deflate stream, 8 trailer bytes
GzipHeaderLen == 10
GzipTrailerLen == 8
\* deflate of n bytes, taken as one stored block: 5 bytes of block header
StoredBlockLen == 5
DeflateLen(n) == n + StoredBlockLen

\* the MTIME header field gzip.Writer writes for Header.ModTime = t: whole
\* seconds when t is after the epoch, else 0.  The field has 32 bits; the
\* times of the model are far below 2^32 s, so nothing is cut off.
MTimeField(t) == IF t > 0 THEN t \div TicksPerSec ELSE 0

\* Header.ModTime as gzip.Reader sets it from the MTIME field
HeaderModTime(f) == IF f > 0 THEN f * TicksPerSec ELSE ZeroTime

\* length in bytes of a file's data
RECURSIVE Size(_)
Size(d) ==
    IF d.t = "raw" THEN Len(d.bytes)
    ELSE GzipHeaderLen + ByteLen(d.name) + 1 + DeflateLen(Size(d.payload))
         + GzipTrailerLen

(***************************** file system *********************************)
DirEntry == [kind |-> "dir"]
FileEntry(data, mtime, readable) ==
    [kind |-> "file", data |-> data, mtime |-> mtime, readable |-> readable]

Exists(f, p) == p \in DOMAIN f
IsDir(f, p) == p \in DOMAIN f /\ f[p].kind = "dir"
IsFile(f, p) == p \in DOMAIN f /\ f[p].kind = "file"

\* f with path p bound to entry e
Put(f, p, e) == [q \in (DOMAIN f) \cup {p} |-> IF q = p THEN e ELSE f[q]]

\* os.MkdirAll(p): nothing to do when p is a directory, an error when p is
\* something else, otherwise the parent first and then p itself
RECURSIVE MkdirAll(_, _)
MkdirAll(f, p) ==
    IF Exists(f, p) THEN [ok |-> IsDir(f, p), fs |-> f]
    ELSE LET par == MkdirAll(f, Dir(p))
         IN  IF ~par.ok THEN [ok |-> FALSE, fs |-> par.fs]
             ELSE [ok |-> TRUE, fs |-> Put(par.fs, p, DirEntry)]

\* os.Open(p) succeeds on a readable file and on a directory
CanOpen(f, p) == Exists(f, p) /\ (IsFile(f, p) => f[p].readable)

\* os.Create(p) succeeds when p's parent is a directory and p is not one
CanCreate(f, p) == IsDir(f, Dir(p)) /\ ~IsDir(f, p)

\* os.Create(p): a new empty file, or the old one truncated
Create(f, p) ==
    Put(f, p, FileEntry(Raw(<<>>), Now, IF IsFile(f, p) THEN f[p].readable ELSE TRUE))

\* the file at p holding data d, written now
WriteAll(f, p, d) == Put(f, p, [f[p] EXCEPT !.data = d, !.mtime = Now])

\* os.Chtimes(p, _, mtime)
Chtimes(f, p, t) == Put(f, p, [f[p] EXCEPT !.mtime = t])

(************************** statistics *************************************)
\* float64(a) / float64(b) * 100.  Go's float division does not fault on a
\* zero divisor: 0/0 is NaN and x/0 is an infinity.
FloatRatio(a, b) ==
    IF b # 0 THEN [kind |-> "num", num |-> a * 100, den |-> b]
    ELSE IF a = 0 THEN [kind |-> "NaN", num |-> 0, den |-> 0]
    ELSE [kind |-> "Inf", num |-> a, den |-> 0]

Stats(original, processed) ==
    [OriginalSize |-> original, CompressedSize |-> processed,
     CompressionRatio |-> FloatRatio(processed, original)]

NoStats == Stats(0, 0)

\* the two percentages PrintStats prints for operation "Compression"
PrintStats(stats, operation) ==
    [ratio |-> stats.CompressionRatio,
     savings |-> IF operation = "Compression"
                 THEN FloatRatio(stats.OriginalSize - stats.CompressedSize,
                                 stats.OriginalSize)
                 ELSE stats.CompressionRatio]

(********************** single-file operations *****************************)
\* Environment faults a call can meet besides what the file system decides:
\* Stat fails, the copy fails mid-stream, the gzip writer's Close fails,
\* os.Chtimes fails.
CompressFaults == {"none", "stat", "copy", "close"}
DecompressFaults == {"none", "stat", "copy", "chtimes"}

\* Return with outputFile closed at the end of the function body instead of
\* by a deferred call: an error return leaves it open
ReturnKeepOutput(err, stats, f, opened, deferred) ==
    [err |-> err, stats |-> stats, fs |-> f,
     open |-> IF err = "nil" THEN opened \ deferred
              ELSE opened \ (deferred \ {"outputFile"})]

\* What a call returns and leaves behind.  opened: the handles and codec
\* streams the call acquired; deferred: those for which a deferred Close was
\* registered before the return, and which are therefore closed by it.
Return(err, stats, f, opened, deferred) ==
    [err |-> err, stats |-> stats, fs |-> f, open |-> opened \ deferred]

\* gzip.NewWriterLevel accepts HuffmanOnly (-2) .. BestCompression (9)
ValidGzipLevel(l) == l \in (-2)..9

\* GzipHeader with the time of the compression for the file's own
GzipHeaderNow(inputPath, inputInfo) ==
    [Name |-> Base(inputPath), ModTime |-> Now]

\* gzWriter.Name and gzWriter.ModTime as CompressFile sets them
GzipHeader(inputPath, inputInfo) ==
    [Name |-> Base(inputPath), ModTime |-> inputInfo.mtime]

\* FileCompressor.CompressFile(inputPath, outputPath)
CompressFile(f, lvl, inputPath, outputPath, fault) ==
    IF ~CanOpen(f, inputPath)
    THEN Return("open", NoStats, f, {}, {})
    ELSE IF fault = "stat"
    THEN Return("stat", NoStats, f, {"inputFile"}, {"inputFile"})
    ELSE IF ~CanCreate(f, outputPath)
    THEN Return("create", NoStats, f, {"inputFile"}, {"inputFile"})
    ELSE
    LET inputInfo == f[inputPath]
        created == Create(f, outputPath)
    IN  IF ~ValidGzipLevel(lvl)
        THEN Return("writer", NoStats, created,
                    {"inputFile", "outputFile"}, {"inputFile", "outputFile"})
        ELSE IF fault = "copy" \/ ~IsFile(created, inputPath)
        THEN Return("copy", NoStats, created,
                    {"inputFile", "outputFile", "gzWriter"},
                    {"inputFile", "outputFile", "gzWriter"})
        ELSE IF fault = "close"
        THEN Return("close", NoStats, created,
                    {"inputFile", "outputFile", "gzWriter"},
                    {"inputFile", "outputFile", "gzWriter"})
        ELSE
        LET \* io.Copy reads the input as it is once the output was created
            source == created[inputPath].data
            \* io.Copy's count: the bytes it read from inputFile
            compressedSize == Size(source)
            header == GzipHeader(inputPath, inputInfo)
            container == Gz(header.Name, MTimeField(header.ModTime), source)
            originalSize == Size(inputInfo.data)
        IN  Return("nil", Stats(originalSize, compressedSize),
                   WriteAll(created, outputPath, container),
                   {"inputFile", "outputFile", "gzWriter"},
                   {"inputFile", "outputFile", "gzWriter"})

\* FileCompressor.DecompressFile(inputPath, outputPath).  gzip.NewReader
\* reads through a 4096-byte bufio.Reader; the files of the model are
\* shorter, so the reader holds the whole container once it is made.
DecompressFile(f, inputPath, outputPath, fault) ==
    IF ~CanOpen(f, inputPath)
    THEN Return("open", NoStats, f, {}, {})
    ELSE IF fault = "stat"
    THEN Return("stat", NoStats, f, {"inputFile"}, {"inputFile"})
    ELSE IF ~IsFile(f, inputPath) \/ f[inputPath].data.t # "gz"
    THEN Return("reader", NoStats, f, {"inputFile"}, {"inputFile"})
    ELSE IF ~CanCreate(f, outputPath)
    THEN Return("create", NoStats, f,
                {"inputFile", "gzReader"}, {"inputFile", "gzReader"})
    ELSE
    LET inputInfo == f[inputPath]
        container == inputInfo.data
        created == Create(f, outputPath)
    IN  IF fault = "copy"
        THEN Return("copy", NoStats, created,
                    {"inputFile", "gzReader", "outputFile"},
                    {"inputFile", "gzReader", "outputFile"})
        ELSE
        LET decompressedSize == Size(container.payload)
            written == WriteAll(created, outputPath, container.payload)
            modTime == HeaderModTime(container.mtime)
            \* the result of os.Chtimes is not looked at
            stamped == IF ~IsZero(modTime) /\ fault # "chtimes"
                       THEN Chtimes(written, outputPath, modTime)
                       ELSE written
        IN  Return("nil", Stats(Size(inputInfo.data), decompressedSize), stamped,
                   {"inputFile", "gzReader", "outputFile"},
                   {"inputFile", "gzReader", "outputFile"})

\* NewFileCompressor with the lower bound off by one
NewFileCompressorFromZero(l) == IF l < 0 \/ l > 9 THEN 6 ELSE l

\* NewFileCompressor(level)
NewFileCompressor(l) == IF l < 1 \/ l > 9 THEN 6 ELSE l

(************************* directory walk **********************************)
\* filepath.Walk visits the names of a directory in sorted order, a
\* directory before what it holds.  For two paths of one tree that is the
\* lexical order of their token sequences with the separator ranked lowest.
TokRank(t) ==
    IF t = Sep THEN 0 ELSE IF t = ".gz" THEN 1 ELSE IF t = "a" THEN 2
    ELSE IF t = "d" THEN 3 ELSE IF t = "g" THEN 4 ELSE 5

WalkLess(p, q) ==
    \E i \in 1..(Len(q)) :
        /\ \A j \in 1..(i - 1) : j <= Len(p) /\ p[j] = q[j]
        /\ \/ i = Len(p) + 1
           \/ i <= Len(p) /\ TokRank(p[i]) < TokRank(q[i])

RECURSIVE SortPaths(_)
SortPaths(S) ==
    IF S = {} THEN <<>>
    ELSE LET first == CHOOSE p \in S : \A q \in S \ {p} : WalkLess(p, q)
         IN  <<first>> \o SortPaths(S \ {first})

\* the regular files filepath.Walk(root, fn) hands to fn, in its order; a
\* root that is itself a regular file is the one file visited
WalkFiles(f, root) ==
    IF IsFile(f, root) THEN {root}
    ELSE {p \in DOMAIN f : IsFile(f, p) /\ Below(root, p)}

WalkOrder(f, root) == SortPaths(WalkFiles(f, root))

\* outputPath as the walk functions compute it from relPath
CompressOutputPath(outputDir, relPath) == Join(outputDir, relPath \o GzSuffix)
DecompressOutputPath(outputDir, relPath) == Join(outputDir, SplitFirst(relPath))

\* MakeOutputDir making the output root where outputPath's directory is due
MakeOutputRoot(f, outputDir, outputPath) == MkdirAll(f, outputDir)

\* outputDirPath := filepath.Dir(outputPath); os.MkdirAll(outputDirPath, 0755)
MakeOutputDir(f, outputDir, outputPath) == MkdirAll(f, Dir(outputPath))

(***************************** the program *********************************)
\* levels a caller hands to NewFileCompressor
LevelArgs == {0, 1, 9, 10}

\* input and output directories of the directory commands
CompressDirArgs == {<<InDir, OutDir>>}
DecompressDirArgs == {<<OutDir, Out2Dir>>}

\* paths handed to the single-file commands
FileArgs == {Join(InDir, <<"a">>), <<"g">>, <<"h">>}

NoTask == [in |-> <<>>, out |-> <<>>]
NoCmd == [name |-> "none", in |-> <<>>, out |-> <<>>]
NoOrigin == [known |-> FALSE, src |-> <<>>, root |-> <<>>, data |-> Raw(<<>>),
             mtime |-> 0]
NoLast == [op |-> "none", in |-> <<>>, out |-> <<>>, err |-> "nil",
           fault |-> "none", stats |-> NoStats, from |-> NoOrigin]

OriginOf(o, p) == IF p \in DOMAIN o THEN o[p] ELSE NoOrigin

\* f without path p
Without(o, p) == [q \in (DOMAIN o) \ {p} |-> o[q]]

\* main: compressor := comp.NewFileCompressor(compressionLevel)
Construct ==
    /\ pc = "start"
    /\ \E l \in LevelArgs : levelArg' = l /\ level' = NewFileCompressor(l)
    /\ pc' = "ready"
    /\ UNCHANGED <<fs, cmd, todo, task, exitStatus, completed, retErr, handles,
                   last, origin, log, runs>>

\* main, case "compress": the call of CompressFile
CompressCmd ==
    /\ pc = "ready"
    /\ \E i \in FileArgs \cup {InDir}, o \in FileArgs :
          /\ cmd' = [name |-> "compress", in |-> i, out |-> o]
          /\ task' = [in |-> i, out |-> o]
    /\ pc' = "file"
    /\ UNCHANGED <<fs, level, levelArg, todo, exitStatus, completed, retErr, handles,
                   last, origin, log, runs>>

\* main, case "decompress": the call of DecompressFile
DecompressCmd ==
    /\ pc = "ready"
    /\ \E i \in FileArgs \cup {InDir}, o \in FileArgs :
          /\ cmd' = [name |-> "decompress", in |-> i, out |-> o]
          /\ task' = [in |-> i, out |-> o]
    /\ pc' = "file"
    /\ UNCHANGED <<fs, level, levelArg, todo, exitStatus, completed, retErr, handles,
                   last, origin, log, runs>>

\* CompressDirectory / DecompressDirectory up to the first call of the walk
\* function: the output root is made, then filepath.Walk stats the input root.
\* An error here is returned to main, which prints it and exits with 1.
StartDirectory(name, inputDir, outputDir) ==
    LET made == MkdirAll(fs, outputDir)
    IN  /\ cmd' = [name |-> name, in |-> inputDir, out |-> outputDir]
        /\ fs' = made.fs
        /\ IF ~made.ok
           THEN /\ retErr' = "root"
                /\ pc' = "exit" /\ exitStatus' = 1 /\ todo' = <<>>
           ELSE IF ~Exists(made.fs, inputDir)
           THEN /\ retErr' = "walk"
                /\ pc' = "exit" /\ exitStatus' = 1 /\ todo' = <<>>
           ELSE /\ retErr' = "nil"
                /\ pc' = "walk" /\ exitStatus' = 0
                /\ todo' = WalkOrder(made.fs, inputDir)
        /\ UNCHANGED <<level, levelArg, task, completed, handles, last, origin,
                       log, runs>>

CompressDirCmd ==
    /\ pc = "ready"
    /\ \E d \in CompressDirArgs : StartDirectory("compress-dir", d[1], d[2])

DecompressDirCmd ==
    /\ pc = "ready"
    /\ \E d \in DecompressDirArgs : StartDirectory("decompress-dir", d[1], d[2])

\* The walk function on the next regular file, up to its call of the
\* single-file operation: relPath, outputPath, MkdirAll of outputPath's
\* directory.  A MkdirAll error is returned, which ends the walk.
WalkFn(name, outputPath) ==
    LET made == MakeOutputDir(fs, cmd.out, outputPath)
    IN  /\ pc = "walk" /\ todo # <<>> /\ cmd.name = name
        /\ fs' = made.fs
        /\ IF ~made.ok
           THEN /\ retErr' = "mkdir"
                /\ pc' = "exit" /\ exitStatus' = 1
                /\ log' = log \cup {[in |-> Head(todo), out |-> outputPath,
                                     err |-> "mkdir"]}
                /\ UNCHANGED <<todo, task>>
           ELSE /\ pc' = "file"
                /\ task' = [in |-> Head(todo), out |-> outputPath]
                /\ todo' = Tail(todo)
                /\ UNCHANGED <<retErr, exitStatus, log>>
        /\ UNCHANGED <<level, levelArg, cmd, completed, handles, last, origin, runs>>

CompressWalkFn ==
    /\ todo # <<>>
    /\ WalkFn("compress-dir", CompressOutputPath(cmd.out, Rel(cmd.in, Head(todo))))

DecompressWalkFn ==
    /\ todo # <<>>
    /\ WalkFn("decompress-dir", DecompressOutputPath(cmd.out, Rel(cmd.in, Head(todo))))

\* What follows a single-file operation that returned err: in a walk the
\* error is printed and the walk goes on; in main an error exits with 1.
AfterFileOp(err) ==
    IF cmd.name \in {"compress", "decompress"}
    THEN /\ pc' = "exit"
         /\ exitStatus' = IF err = "nil" THEN 0 ELSE 1
         /\ completed' = (err = "nil")
    ELSE /\ pc' = "walk"
         /\ UNCHANGED <<exitStatus, completed>>

\* the call fc.CompressFile(task.in, task.out)
RunCompressFile ==
    /\ pc = "file" /\ cmd.name \in {"compress", "compress-dir"}
    /\ \E fault \in CompressFaults :
        LET r == CompressFile(fs, level, task.in, task.out, fault)
            before == fs[task.in]
        IN  /\ fs' = r.fs
            /\ handles' = r.open
            /\ last' = [op |-> "compress", in |-> task.in, out |-> task.out,
                        err |-> r.err, fault |-> fault, stats |-> r.stats,
                        from |-> NoOrigin]
            /\ origin' =
                 IF r.err = "nil"
                 THEN [q \in (DOMAIN origin) \cup {task.out} |->
                         IF q = task.out
                         THEN [known |-> TRUE, src |-> task.in,
                               root |-> IF cmd.name = "compress-dir" THEN cmd.in
                                        ELSE <<>>,
                               data |-> before.data, mtime |-> before.mtime]
                         ELSE origin[q]]
                 ELSE IF r.fs # fs THEN Without(origin, task.out) ELSE origin
            /\ log' = log \cup {[in |-> task.in, out |-> task.out, err |-> r.err]}
            /\ AfterFileOp(r.err)
    /\ UNCHANGED <<level, levelArg, cmd, todo, task, retErr, runs>>

\* the call fc.DecompressFile(task.in, task.out)
RunDecompressFile ==
    /\ pc = "file" /\ cmd.name \in {"decompress", "decompress-dir"}
    /\ \E fault \in DecompressFaults :
        LET r == DecompressFile(fs, task.in, task.out, fault)
        IN  /\ fs' = r.fs
            /\ handles' = r.open
            /\ last' = [op |-> "decompress", in |-> task.in, out |-> task.out,
                        err |-> r.err, fault |-> fault, stats |-> r.stats,
                        from |-> OriginOf(origin, task.in)]
            /\ origin' = IF r.fs # fs THEN Without(origin, task.out) ELSE origin
            /\ log' = log \cup {[in |-> task.in, out |-> task.out, err |-> r.err]}
            /\ AfterFileOp(r.err)
    /\ UNCHANGED <<level, levelArg, cmd, todo, task, retErr, runs>>

\* filepath.Walk has no file left: the directory operation returns nil and
\* main prints that the batch completed
WalkReturn ==
    /\ pc = "walk" /\ todo = <<>>
    /\ pc' = "exit" /\ exitStatus' = 0 /\ completed' = TRUE
    /\ UNCHANGED <<fs, level, levelArg, cmd, todo, task, retErr, handles, last,
                   origin, log, runs>>

\* the program is run again on the file system the last run left
Restart ==
    /\ pc = "exit" /\ runs < MaxRuns
    /\ pc' = "start" /\ runs' = runs + 1
    /\ level' = 0 /\ levelArg' = 0 /\ cmd' = NoCmd /\ task' = NoTask /\ todo' = <<>>
    /\ exitStatus' = 0 /\ completed' = FALSE /\ retErr' = "nil"
    /\ last' = NoLast /\ log' = {}
    /\ UNCHANGED <<fs, handles, origin>>

(*************************** initial states ********************************)
EmptyFs == (Dot :> DirEntry)

\* relative paths of the files an input tree is made of
RelNames == {<<"a">>, <<"a", ".gz">>, <<"d", Sep, "a">>, <<"d", ".gz", Sep, "a">>}

\* what a file of the initial tree holds
Contents == {<<>>, <<1>>, <<1, 2>>}
MTimes == {0, 1, TicksPerSec, TicksPerSec + 1}

\* f with a regular file at path p and the directories above it
WithFile(f, p, e) == Put(MkdirAll(f, Dir(p)).fs, p, e)

RECURSIVE WithFiles(_, _, _, _)
WithFiles(f, root, names, unreadable) ==
    IF names = {} THEN f
    ELSE LET n == CHOOSE x \in names : TRUE
         IN  WithFiles(WithFile(f, Join(root, n),
                                FileEntry(Raw(<<1>>), TicksPerSec, n \notin unreadable)),
                       root, names \ {n}, unreadable)

InitRun ==
    /\ pc = "start" /\ level = 0 /\ levelArg = 0 /\ cmd = NoCmd /\ task = NoTask /\ todo = <<>>
    /\ exitStatus = 0 /\ completed = FALSE /\ retErr = "nil" /\ handles = {}
    /\ last = NoLast /\ origin = << >> /\ log = {} /\ runs = 1

\* The directory commands start from an input tree of at most MaxFiles
\* files, at most one of them unreadable, and an output root that is absent,
\* or is a regular file, or holds a regular file where the tree has the
\* directory d.
Init ==
    /\ InitRun
    /\ \E names \in SUBSET RelNames, unreadable \in SUBSET RelNames,
          obstacle \in {"none", "rootfile", "dfile", "noinput"} :
          /\ Cardinality(names) <= MaxFiles
          /\ unreadable \subseteq names /\ Cardinality(unreadable) <= 1
          /\ obstacle = "noinput" => names = {}
          /\ LET tree == IF obstacle = "noinput" THEN EmptyFs
                         ELSE WithFiles(MkdirAll(EmptyFs, InDir).fs, InDir,
                                        names, unreadable)
             IN  fs = IF obstacle = "rootfile"
                      THEN Put(tree, OutDir, FileEntry(Raw(<<1>>), TicksPerSec, TRUE))
                      ELSE IF obstacle = "dfile"
                      THEN WithFile(tree, Join(OutDir, <<"d">>),
                                    FileEntry(Raw(<<1>>), TicksPerSec, TRUE))
                      ELSE tree

Next ==
    \/ Construct
    \/ CompressDirCmd
    \/ DecompressDirCmd
    \/ CompressWalkFn
    \/ DecompressWalkFn
    \/ RunCompressFile
    \/ RunDecompressFile
    \/ WalkReturn
    \/ Restart

Spec == Init /\ [][Next]_vars

\* The single-file commands start from one file in/a.
InitFile ==
    /\ InitRun
    /\ \E c \in Contents, m \in MTimes, r \in BOOLEAN :
          fs = WithFile(EmptyFs, Join(InDir, <<"a">>), FileEntry(Raw(c), m, r))

NextFile ==
    \/ Construct
    \/ CompressCmd
    \/ DecompressCmd
    \/ RunCompressFile
    \/ RunDecompressFile
    \/ Restart

SpecFile == InitFile /\ [][NextFile]_vars

(******************************* claims ************************************)
DirCmd == cmd.name \in {"compress-dir", "decompress-dir"}

\* a directory command has ended whose output root was made and whose
\* input root the walk could stat
DirCmdEnded == pc = "exit" /\ DirCmd /\ retErr \notin {"root", "walk"}

\* s with a trailing ".gz" removed, s itself when it has none
TrimSuffix(s) ==
    IF Len(s) > 0 /\ s[Len(s)] = ".gz" THEN SubSeq(s, 1, Len(s) - 1) ELSE s

\* C1: a failure on one file does not end the walk: when a directory
\* operation has ended, the walk function was called on every regular file of
\* the input tree.
C1_EveryFileVisited ==
    DirCmdEnded => \A p \in WalkFiles(fs, cmd.in) : \E e \in log : e.in = p

\* C2: the error a directory operation returns comes from the root setup or
\* from the walk alone: when both succeeded it returns nil whatever happened
\* to single files, and main reports the batch completed and exits with 0.
C2_ReturnsOnlyWalkErrors ==
    DirCmdEnded => retErr = "nil" /\ exitStatus = 0 /\ completed

\* C3: path round trip: a file in/p is compressed to out/p.gz, and
\* the decompression of out/p.gz into out2 is aimed at out2/p.
C3_PathRoundTrip ==
    (pc = "file" /\ cmd.name = "decompress-dir"
        /\ OriginOf(origin, task.in).known /\ OriginOf(origin, task.in).root # <<>>)
    => LET o == origin[task.in]
           p == Rel(o.root, o.src)
       IN  /\ task.in = Join(cmd.in, p \o GzSuffix)
           /\ task.out = Join(cmd.out, p)

C5_SizesAreLengths ==
    (last.op = "compress" /\ last.err = "nil")
    => /\ last.stats.OriginalSize = Size(origin[last.out].data)
       /\ last.stats.CompressedSize = Size(fs[last.out].data)

\* C6: compressing an empty file succeeds and its ratio and space-saved
\* percentage are numbers, not the result of a division by zero.
C6_EmptyRatioDefined ==
    (last.op = "compress" /\ last.err = "nil" /\ last.stats.OriginalSize = 0)
    => /\ last.stats.CompressionRatio.kind = "num"
       /\ PrintStats(last.stats, "Compression").savings.kind = "num"

\* C7: the walk maps files to destinations one to one, and a decompression
\* destination is the relative path with a trailing ".gz" removed and
\* nothing else changed.
C7_OneToOne ==
    DirCmd =>
      /\ \A e1, e2 \in log : e1.in # e2.in => e1.out # e2.out
      /\ cmd.name = "decompress-dir"
         => \A e \in log : e.out = Join(cmd.out, TrimSuffix(Rel(cmd.in, e.in)))

\* C8: when a single-file operation has returned, by whichever return, every
\* handle and codec stream it opened is closed; none is open when the next
\* file begins.
C8_AllReleased == handles = {}

\* a CompressFile that failed in the copy, with files of the walk still to come
C8_Witness ==
    /\ pc = "walk" /\ todo # <<>> /\ last.op = "compress" /\ last.err = "copy"
    /\ handles = {}

\* C9: when the single-file operation of a walk begins, the directory of its
\* outputPath exists.
C9_ParentExists == (pc = "file" /\ DirCmd) => IsDir(fs, Dir(task.out))

\* a file two levels below the output root, about to be written again in
\* the directory the run before had made for it
C9_Witness ==
    /\ pc = "file" /\ DirCmd /\ Dir(task.out) # cmd.out
    /\ runs = 2 /\ IsFile(fs, task.out)
    /\ IsDir(fs, Dir(task.out))

\* C10: the level of a compressor is the level asked for when that is in
\* 1..9 and 6 otherwise, and stays so through every operation.
C10_LevelClamped ==
    pc # "start" => /\ level \in 1..9
                    /\ level = IF levelArg \in 1..9 THEN levelArg ELSE 6

\* a compressor asked for level 10, after a single-file operation of a walk
C10_Witness ==
    /\ pc = "walk" /\ last.op # "none" /\ levelArg = 10 /\ level = 6

====
